---------------------------- MODULE Spec2Model ----------------------------
(***************************************************************************)
(* Model of the eBPF uprobe programs of ecapture:                          *)
(*   src/kern/openssl_kern.c  (SSL_read / SSL_write / connect)             *)
(*   src/kern/nspr_kern.c     (PR_Read / PR_Write)                         *)
(* One behaviour models one set of attached probes (variable lib): the     *)
(* SSL_read/SSL_write probes of openssl_kern.c, its connect probe, or the  *)
(* PR_Read/PR_Write probes of nspr_kern.c.  The connect probe shares no    *)
(* map with the other probes.  A step is one event of the traced           *)
(* processes: a call entering or returning, with the probe handler run to  *)
(* completion when the probe fires.  SpecTake runs the return handlers in  *)
(* two steps instead, and SpecOrder follows the records to the consumer.   *)
(***************************************************************************)
EXTENDS Integers, Sequences, FiniteSets, TLC

(***************************************************************************)
(* Bounds of the model.                                                    *)
(***************************************************************************)
\* width in bits of the scaled C int / u32 (32 in the source)
IntBits == 4
\* log2 of the scaled payload capacity
DataSizeBits == 2
\* scaled capacity of a Call-Context Store (max_entries = 1024 in the source)
MaxEntries == 1
\* capacity in records of one per-CPU perf ring (the loader sizes the rings)
PerfCap == 1
\* number of events of the traced processes in one behaviour
MaxTime == 4
\* number of events in a behaviour that tries every return register value
MaxReturnTime == 3
\* number of events in a behaviour that follows records to the consumer
MaxOrderTime == 5
\* number of events in a behaviour whose return handlers run step by step
MaxTakeTime == 5
\* number of connection attempts in a behaviour of the connect probe
MaxConnects == 2
\* scaled length of sa_data (char sa_data[SA_DATA_LEN])
SA_DATA_LEN == 2

(***************************************************************************)
(* Program constants.                                                      *)
(***************************************************************************)
kSSLRead == 0
kSSLWrite == 1
invalidFD == 0
AF_INET == 2
\* char data[MAX_DATA_SIZE_OPENSSL]; the constant is set in a header that is
\* not part of src/.  The "& (MAX - 1)" idiom of process_SSL_data requires a
\* power of two, which is what the model takes.
MAX_DATA_SIZE_OPENSSL == 2 ^ DataSizeBits

IntModulus == 2 ^ IntBits
\* a register holds more bits than an int: one more bit in the model
RegModulus == 2 * IntModulus

(***************************************************************************)
(* Integer conversions of the handlers.                                    *)
(***************************************************************************)
\* (int)PT_REGS_RC(ctx): the low IntBits bits of the register, signed
\* variant: the register read as an unsigned int
CastIntUnsigned(reg) == reg % IntModulus
CastInt(reg) ==
    LET w == reg % IntModulus
    IN  IF w >= IntModulus \div 2 THEN w - IntModulus ELSE w

\* (u32)x
CastU32(reg) == reg % IntModulus

RECURSIVE BitAndNat(_, _)
BitAndNat(a, b) ==
    IF a = 0 \/ b = 0 THEN 0
    ELSE (IF a % 2 = 1 /\ b % 2 = 1 THEN 1 ELSE 0)
         + 2 * BitAndNat(a \div 2, b \div 2)

\* a & b on two's complement ints of IntBits bits
BitAnd(a, b) == CastInt(BitAndNat(a % IntModulus, b % IntModulus))

\* variant: the mask without the comparison
DataLenWrapped(len) == BitAnd(len, MAX_DATA_SIZE_OPENSSL - 1)
\* event->data_len = (len < MAX ? (len & (MAX - 1)) : MAX)
DataLen(len) ==
    IF len < MAX_DATA_SIZE_OPENSSL
    THEN BitAnd(len, MAX_DATA_SIZE_OPENSSL - 1)
    ELSE MAX_DATA_SIZE_OPENSSL

(***************************************************************************)
(* The traced processes: tasks, their memory, their arguments.             *)
(***************************************************************************)
\* <<tgid, pid>> of the kernel, i.e. <<process id, thread id>>
Tasks == { <<1, 1>>, <<1, 2>> }
\* values of the process filter: every process, the traced one, another one
TargetPids == { 0, 1, 2 }
Pids == { t[1] : t \in Tasks }
CPUs == { 0, 1 }

\* variant: a key made of the process id alone
PidTgidProcessOnly(t) == t[1] * IntModulus
\* bpf_get_current_pid_tgid(): tgid in the high half, thread id in the low
bpf_get_current_pid_tgid(t) == t[1] * IntModulus + t[2]

\* current_pid_tgid >> 32   and   current_pid_tgid & 0xffffffff
PidOf(id) == id \div IntModulus
TidOf(id) == id % IntModulus

\* bpf_get_current_comm(): the name of the current task
CurrentComm(t) == IF t[1] = 1 THEN "curl" ELSE "wget"

\* Byte memory of the traced processes: addresses 1 .. UserMemTop are
\* mapped and the byte at address a is a; every other address faults.
UserMemTop == MAX_DATA_SIZE_OPENSSL + 2
Mapped(a) == a \in 1 .. UserMemTop
UserByte(a) == a
Readable(src, n) == \A i \in 0 .. (n - 1) : Mapped(src + i)
UserBytes(src, n) == [ i \in 1 .. n |-> UserByte(src + i - 1) ]
Zeros(n) == [ i \in 1 .. n |-> 0 ]

\* buffer arguments: a buffer with MAX + 2 readable bytes, and a buffer of
\* which only the first two bytes are mapped
BufAddrs == { 1, UserMemTop - 1 }

\* struct ssl_st objects of the traced processes, by address; address 0 and
\* every address not listed fault.  BIO objects live at addresses 1 and 2.
BioAddrs == { 1, 2 }
BadBioAddr == UserMemTop + 1
SslAddrs == { 0, 1, 2 }
SslObject(a) ==
    IF a = 1 THEN [ rbio |-> 1, wbio |-> 2 ]
    ELSE [ rbio |-> 2, wbio |-> BadBioAddr ]
SslReadable(a) == a \in { 1, 2 }
FdValues == { 3, 4 }
\* <<ssl, buf>> arguments of SSL_read / SSL_write
SslCallArgs == { << 1, 1 >>, << 2, UserMemTop - 1 >>, << 0, 1 >> }

\* every value of the return register
RetRegs == 0 .. (RegModulus - 1)
\* the values tried in long behaviours: 0, a small count with a set bit
\* above the int, a count beyond the capacity, and -1
RetSample == { 0, IntModulus + 2, MAX_DATA_SIZE_OPENSSL + 1, RegModulus - 1 }


\* struct sockaddr objects of the traced processes, by address: 0 is NULL,
\* 3 faults, and of 4 only the sa_family field is mapped.
SockAddrs == { 0, 1, 2, 3, 4 }
FamilyReadable(a) == a \in { 1, 2, 4 }
SaDataReadable(a) == a \in { 1, 2 }
\* the sockaddr at 2 is of family AF_INET6 (10), the others of AF_INET (2)
SaFamily(a) == IF a = 2 THEN 10 ELSE 2
SaData(a) == [ i \in 1 .. SA_DATA_LEN |-> 10 * a + i ]
\* the descriptor argument of connect, as the register holds it
ConnectFdRegs == { 3, IntModulus + 4 }

VARIABLES
    lib,                        \* "openssl", "connect" or "nspr": the probes
    KERNEL_LESS_5_2,            \* the build flag of nspr_kern.c
    target_pid,                 \* the process filter, 0 for every process
    bio_num,                    \* BIO.num of the BIO objects of the processes
    active_ssl_read_args_map,   \* key -> pending context of a read call
    active_ssl_write_args_map,  \* key -> pending context of a write call
    data_buffer_heap,           \* cpu -> the scratch record of that cpu
    tls_events,                 \* cpu -> perf ring of capture records
    connect_events,             \* cpu -> perf ring of connection records
    perf_cap,                   \* records a per-CPU perf ring can hold
    now,                        \* the clock read by bpf_ktime_get_ns()
    running,                    \* task -> the return handler it is inside
    cur,                        \* history: task -> the call it is inside
    last,                       \* history: what the last step did
    log                         \* history: the steps so far

vars == << lib, KERNEL_LESS_5_2, target_pid, bio_num,
           active_ssl_read_args_map, active_ssl_write_args_map,
           data_buffer_heap, tls_events, connect_events, perf_cap, now,
           running, cur, last, log >>

config == << lib, KERNEL_LESS_5_2, target_pid, perf_cap >>
rings == << tls_events, connect_events >>
stores == << active_ssl_read_args_map, active_ssl_write_args_map >>

NULL == [ null |-> TRUE ]
NoCall == [ id |-> 0, dir |-> 0, ssl |-> 0, buf |-> 0, probed |-> FALSE,
            stored |-> FALSE ]
NoEvent == [ none |-> TRUE ]
EmptyMap == [ k \in {} |-> NULL ]

(***************************************************************************)
(* Kernel helpers, as the handlers use them.                               *)
(***************************************************************************)
\* variant: a map that grows beyond max_entries
bpf_map_update_elem_unbounded(m, k, v) ==
    [ map |-> [ x \in DOMAIN m \cup { k } |-> IF x = k THEN v ELSE m[x] ],
      ret |-> 0 ]
\* variant: BPF_NOEXIST, a present key is left as it is
bpf_map_update_elem_noexist(m, k, v) ==
    IF k \in DOMAIN m THEN [ map |-> m, ret |-> -17 ]
    ELSE IF Cardinality(DOMAIN m) < MaxEntries
    THEN [ map |-> [ x \in DOMAIN m \cup { k } |-> IF x = k THEN v ELSE m[x] ],
           ret |-> 0 ]
    ELSE [ map |-> m, ret |-> -7 ]
\* BPF_MAP_TYPE_HASH, BPF_ANY: insert or overwrite; a new key is refused
\* (-E2BIG) when the map holds max_entries keys.
bpf_map_update_elem(m, k, v) ==
    IF k \in DOMAIN m \/ Cardinality(DOMAIN m) < MaxEntries
    THEN [ map |-> [ x \in DOMAIN m \cup { k } |-> IF x = k THEN v ELSE m[x] ],
           ret |-> 0 ]
    ELSE [ map |-> m, ret |-> -7 ]

\* variant: a lookup that ignores the key when it is absent
bpf_map_lookup_elem_any(m, k) ==
    IF k \in DOMAIN m THEN m[k]
    ELSE IF DOMAIN m # {} THEN m[CHOOSE x \in DOMAIN m : TRUE]
    ELSE NULL
bpf_map_lookup_elem(m, k) == IF k \in DOMAIN m THEN m[k] ELSE NULL

\* variant: the delete left out
bpf_map_delete_elem_skipped(m, k) == m
bpf_map_delete_elem(m, k) == [ x \in DOMAIN m \ { k } |-> m[x] ]

\* bpf_probe_read(dst, size, src) on a byte array dst: the first size bytes
\* of dst become the bytes at src, or zeros when any of them faults.
bpf_probe_read(dst, size, src) ==
    LET ok == Readable(src, size)
        got == IF ok THEN UserBytes(src, size) ELSE Zeros(size)
    IN  [ ok |-> ok,
          data |-> [ i \in 1 .. Len(dst) |-> IF i <= size THEN got[i] ELSE dst[i] ] ]

\* variant: a full ring overwrites its oldest record
bpf_perf_event_output_overwrite(ring, cpu, record) ==
    IF Len(ring[cpu]) < perf_cap
    THEN [ ring |-> [ ring EXCEPT ![cpu] = Append(@, record) ], ret |-> 0 ]
    ELSE [ ring |-> [ ring EXCEPT ![cpu] = Append(Tail(@), record) ], ret |-> 0 ]
\* variant: the record put in front of the queued ones
bpf_perf_event_output_front(ring, cpu, record) ==
    IF Len(ring[cpu]) < perf_cap
    THEN [ ring |-> [ ring EXCEPT ![cpu] = << record >> \o @ ], ret |-> 0 ]
    ELSE [ ring |-> ring, ret |-> -28 ]
\* bpf_perf_event_output(ctx, &ring, BPF_F_CURRENT_CPU, ...): the record is
\* appended to the ring of the current cpu, or lost when that ring is full.
bpf_perf_event_output(ring, cpu, record) ==
    IF Len(ring[cpu]) < perf_cap
    THEN [ ring |-> [ ring EXCEPT ![cpu] = Append(@, record) ], ret |-> 0 ]
    ELSE [ ring |-> ring, ret |-> -28 ]

(***************************************************************************)
(* Socket identity resolver: fd = ssl->wbio->num or ssl->rbio->num.        *)
(* bpf_probe_read_user zero-fills its destination when the read faults.    *)
(***************************************************************************)
ReadSslSt(ssl) == IF SslReadable(ssl) THEN SslObject(ssl) ELSE [ rbio |-> 0, wbio |-> 0 ]
ReadBioNum(bio) == IF bio \in BioAddrs THEN bio_num[bio] ELSE 0

\* variant: fd preset to -1 and left so when a read faults
ResolveFdWriteMinusOne(ssl) ==
    IF SslReadable(ssl) /\ SslObject(ssl).wbio \in BioAddrs
    THEN CastU32(bio_num[SslObject(ssl).wbio])
    ELSE CastU32(-1)
\* variant: the read direction resolved through the write transport
ResolveFdReadFromWbio(ssl) == CastU32(ReadBioNum(ReadSslSt(ssl).wbio))
ResolveFdWrite(ssl) == CastU32(ReadBioNum(ReadSslSt(ssl).wbio))
ResolveFdRead(ssl) == CastU32(ReadBioNum(ReadSslSt(ssl).rbio))

(***************************************************************************)
(* History of the last step, read by the properties only.                  *)
(***************************************************************************)
Step(op, t, dir) ==
    [ op |-> op,            \* "entry", "ret", "connect": a handler ran
      task |-> t,           \* the task that made the step
      dir |-> dir,          \* kSSLRead or kSSLWrite
      call |-> 0,           \* the call entered or returned from
      of |-> NoCall,        \* at a return: the history of the call
      reg |-> 0,            \* the return register / the fd register
      arg |-> 0,            \* the sockaddr argument of connect
      cpu |-> 0,            \* the cpu the handler ran on
      passed |-> FALSE,     \* the handler passed the process filter
      put |-> FALSE,        \* the entry handler's map update succeeded
      found |-> FALSE,      \* the return handler found a pending context
      ctx |-> NULL,         \* the pending context it found
      nemit |-> 0,          \* calls of bpf_perf_event_output
      queued |-> FALSE,     \* the ring took the record
      copy_ok |-> TRUE,     \* the payload copy did not fault
      event |-> NoEvent ]   \* the record handed to bpf_perf_event_output

\* The environment of an entry probe: task t, inside no traced call, calls
\* the traced function; the call gets the next clock tick as its identity.
CanEnter(t) ==
    /\ cur[t] = NoCall

\* The environment of a return probe: task t returns from the traced call
\* of direction dir it is inside.
CanReturn(t, dir) ==
    /\ cur[t] # NoCall
    /\ running[t] = NULL
    /\ cur[t].dir = dir

\* History of a call: its arguments, whether its entry probe fired and
\* whether the entry handler stored a pending context for it.
Entered(t, dir, ssl, buf, probed, stored) ==
    [ cur EXCEPT ![t] = [ id |-> now + 1, dir |-> dir, ssl |-> ssl,
                          buf |-> buf, probed |-> probed, stored |-> stored ] ]

\* The result of a run of process_SSL_data: the scratch slots, the ring, and
\* the history of what it did.
NoRecord(heap, ring) ==
    [ heap |-> heap, ring |-> ring, nemit |-> 0, queued |-> FALSE,
      copy_ok |-> TRUE, event |-> NoEvent ]

\* variant: a zero count rejected too
LenRejectedNonPositive(len) == len <= 0
\* int len = (int)PT_REGS_RC(ctx); if (len < 0) return 0;
LenRejected(len) == len < 0

(***************************************************************************)
(* openssl_kern.c                                                          *)
(***************************************************************************)
\* variant: the filter without the "all" sentinel
FilteredNoSentinel(pid) == target_pid # pid
\* if (target_pid != 0 && target_pid != pid) return 0;
Filtered(pid) == target_pid # 0 /\ target_pid # pid

\* variant: the first argument of the call stored as the buffer address
openssl_active_ssl_buf_first_arg(t, ssl, buf, fd, call) ==
    [ fd |-> fd, buf |-> ssl, call |-> call, task |-> t ]
\* The pending context the entry handler stores; call and task are history
\* (the call and the task whose entry stored it), read by the properties.
openssl_active_ssl_buf(t, ssl, buf, fd, call) ==
    [ fd |-> fd, buf |-> buf, call |-> call, task |-> t ]

\* variant: the descriptor resolved again when the context is looked up
openssl_write_lookup_resolved_again(key) ==
    LET found == bpf_map_lookup_elem(active_ssl_write_args_map, key)
    IN  IF found = NULL THEN NULL
        ELSE [ found EXCEPT !.fd = ResolveFdWrite(cur[found.task].ssl) ]
\* the lookups of the return handlers
openssl_write_lookup(key) == bpf_map_lookup_elem(active_ssl_write_args_map, key)
\* variant: the read handler looking into the store of the write calls
openssl_read_lookup_in_write_map(key) ==
    bpf_map_lookup_elem(active_ssl_write_args_map, key)
openssl_read_lookup(key) == bpf_map_lookup_elem(active_ssl_read_args_map, key)

\* variant: the thread id of the slot left as the last call set it
openssl_create_ssl_data_event_stale_tid(slot, current_pid_tgid, ts) ==
    [ slot EXCEPT !.timestamp_ns = ts,
                  !.pid = PidOf(current_pid_tgid),
                  !.fd = invalidFD ]
openssl_create_ssl_data_event(slot, current_pid_tgid, ts) ==
    [ slot EXCEPT !.timestamp_ns = ts,
                  !.pid = PidOf(current_pid_tgid),
                  !.tid = TidOf(current_pid_tgid),
                  !.fd = invalidFD ]

openssl_process_SSL_data(heap, ring, t, cpu, ts, reg, id, type, buf, fd) ==
    LET len == CastInt(reg)
    IN  IF LenRejected(len)
        THEN NoRecord(heap, ring)
        ELSE LET created == openssl_create_ssl_data_event(heap[cpu], id, ts)
                 sized == [ created EXCEPT !.type = type, !.fd = fd,
                                           !.data_len = DataLen(len) ]
                 rd == bpf_probe_read(sized.data, sized.data_len, buf)
                 event == [ sized EXCEPT !.data = rd.data,
                                         !.comm = CurrentComm(t) ]
                 out == bpf_perf_event_output(ring, cpu, event)
             IN  [ heap |-> [ heap EXCEPT ![cpu] = event ], ring |-> out.ring,
                   nemit |-> 1, queued |-> (out.ret = 0), copy_ok |-> rd.ok,
                   event |-> event ]

\* int SSL_write(SSL *ssl, const void *buf, int num), uprobe
openssl_probe_entry_SSL_write(t, ssl, buf) ==
    /\ lib = "openssl"
    /\ CanEnter(t)
    /\ LET current_pid_tgid == bpf_get_current_pid_tgid(t)
           pid == PidOf(current_pid_tgid)
           upd == bpf_map_update_elem(active_ssl_write_args_map, current_pid_tgid,
                                      openssl_active_ssl_buf(t, ssl, buf, ResolveFdWrite(ssl), now + 1))
           passed == ~Filtered(pid)
       IN  /\ active_ssl_write_args_map' = IF passed THEN upd.map ELSE active_ssl_write_args_map
           /\ cur' = Entered(t, kSSLWrite, ssl, buf, TRUE, passed /\ upd.ret = 0)
           /\ last' = [ Step("entry", t, kSSLWrite) EXCEPT
                          !.call = now + 1, !.passed = passed,
                          !.put = (passed /\ upd.ret = 0) ]
    /\ now' = now + 1
    /\ UNCHANGED << config, running, bio_num, active_ssl_read_args_map, data_buffer_heap, rings >>

\* uretprobe of SSL_write
openssl_probe_ret_SSL_write(t, reg, cpu) ==
    /\ lib = "openssl"
    /\ CanReturn(t, kSSLWrite)
    /\ LET current_pid_tgid == bpf_get_current_pid_tgid(t)
           pid == PidOf(current_pid_tgid)
           passed == ~Filtered(pid)
           active_ssl_buf_t == openssl_write_lookup(current_pid_tgid)
           r == IF passed /\ active_ssl_buf_t # NULL
                THEN openssl_process_SSL_data(
                               data_buffer_heap, tls_events, t, cpu, now + 1, reg,
                               current_pid_tgid, kSSLWrite,
                               active_ssl_buf_t.buf, active_ssl_buf_t.fd)
                ELSE NoRecord(data_buffer_heap, tls_events)
       IN  /\ active_ssl_write_args_map' =
                  IF passed
                  THEN bpf_map_delete_elem(active_ssl_write_args_map, current_pid_tgid)
                  ELSE active_ssl_write_args_map
           /\ data_buffer_heap' = r.heap
           /\ tls_events' = r.ring
           /\ last' = [ Step("ret", t, kSSLWrite) EXCEPT
                          !.call = cur[t].id, !.of = cur[t], !.reg = reg,
                          !.cpu = cpu, !.passed = passed,
                          !.found = (passed /\ active_ssl_buf_t # NULL),
                          !.ctx = IF passed THEN active_ssl_buf_t ELSE NULL,
                          !.nemit = r.nemit, !.queued = r.queued,
                          !.copy_ok = r.copy_ok, !.event = r.event ]
    /\ cur' = [ cur EXCEPT ![t] = NoCall ]
    /\ now' = now + 1
    /\ UNCHANGED << config, running, bio_num, active_ssl_read_args_map, connect_events >>

\* int SSL_read(SSL *s, void *buf, int num), uprobe
openssl_probe_entry_SSL_read(t, ssl, buf) ==
    /\ lib = "openssl"
    /\ CanEnter(t)
    /\ LET current_pid_tgid == bpf_get_current_pid_tgid(t)
           pid == PidOf(current_pid_tgid)
           upd == bpf_map_update_elem(active_ssl_read_args_map, current_pid_tgid,
                                      openssl_active_ssl_buf(t, ssl, buf, ResolveFdRead(ssl), now + 1))
           passed == ~Filtered(pid)
       IN  /\ active_ssl_read_args_map' = IF passed THEN upd.map ELSE active_ssl_read_args_map
           /\ cur' = Entered(t, kSSLRead, ssl, buf, TRUE, passed /\ upd.ret = 0)
           /\ last' = [ Step("entry", t, kSSLRead) EXCEPT
                          !.call = now + 1, !.passed = passed,
                          !.put = (passed /\ upd.ret = 0) ]
    /\ now' = now + 1
    /\ UNCHANGED << config, running, bio_num, active_ssl_write_args_map, data_buffer_heap, rings >>

\* uretprobe of SSL_read
openssl_probe_ret_SSL_read(t, reg, cpu) ==
    /\ lib = "openssl"
    /\ CanReturn(t, kSSLRead)
    /\ LET current_pid_tgid == bpf_get_current_pid_tgid(t)
           pid == PidOf(current_pid_tgid)
           passed == ~Filtered(pid)
           active_ssl_buf_t == openssl_read_lookup(current_pid_tgid)
           r == IF passed /\ active_ssl_buf_t # NULL
                THEN openssl_process_SSL_data(
                               data_buffer_heap, tls_events, t, cpu, now + 1, reg,
                               current_pid_tgid, kSSLRead,
                               active_ssl_buf_t.buf, active_ssl_buf_t.fd)
                ELSE NoRecord(data_buffer_heap, tls_events)
       IN  /\ active_ssl_read_args_map' =
                  IF passed
                  THEN bpf_map_delete_elem(active_ssl_read_args_map, current_pid_tgid)
                  ELSE active_ssl_read_args_map
           /\ data_buffer_heap' = r.heap
           /\ tls_events' = r.ring
           /\ last' = [ Step("ret", t, kSSLRead) EXCEPT
                          !.call = cur[t].id, !.of = cur[t], !.reg = reg,
                          !.cpu = cpu, !.passed = passed,
                          !.found = (passed /\ active_ssl_buf_t # NULL),
                          !.ctx = IF passed THEN active_ssl_buf_t ELSE NULL,
                          !.nemit = r.nemit, !.queued = r.queued,
                          !.copy_ok = r.copy_ok, !.event = r.event ]
    /\ cur' = [ cur EXCEPT ![t] = NoCall ]
    /\ now' = now + 1
    /\ UNCHANGED << config, running, bio_num, active_ssl_write_args_map, connect_events >>

\* variant: every family that could be read is accepted
FamilyAcceptedAny(address_family) == address_family # 0
\* if (address_family != AF_INET) return 0;
FamilyAccepted(address_family) == address_family = AF_INET

\* int __connect(int fd, __CONST_SOCKADDR_ARG addr, socklen_t len), uprobe
probe_connect(t, fdreg, saddr, cpu) ==
    /\ lib = "connect"
    /\ now < MaxConnects
    /\ LET current_pid_tgid == bpf_get_current_pid_tgid(t)
           pid == PidOf(current_pid_tgid)
           base == [ Step("connect", t, kSSLRead) EXCEPT
                       !.reg = fdreg, !.arg = saddr, !.cpu = cpu ]
           fd == CastU32(fdreg)
           address_family == IF FamilyReadable(saddr) THEN SaFamily(saddr) ELSE 0
       IN  IF Filtered(pid)
           THEN /\ UNCHANGED connect_events
                /\ last' = base
           ELSE IF saddr = 0 \/ ~FamilyAccepted(address_family)
           THEN /\ UNCHANGED connect_events
                /\ last' = [ base EXCEPT !.passed = TRUE ]
           ELSE LET conn == [ timestamp_ns |-> now + 1,
                              pid |-> pid,
                              tid |-> CastU32(current_pid_tgid),
                              fd |-> fd,
                              sa_data |-> IF SaDataReadable(saddr)
                                          THEN SaData(saddr)
                                          ELSE Zeros(SA_DATA_LEN),
                              comm |-> CurrentComm(t) ]
                    out == bpf_perf_event_output(connect_events, cpu, conn)
                IN  /\ connect_events' = out.ring
                    /\ last' = [ base EXCEPT
                                   !.passed = TRUE, !.nemit = 1,
                                   !.queued = (out.ret = 0),
                                   !.copy_ok = SaDataReadable(saddr),
                                   !.event = conn ]
    /\ now' = now + 1
    /\ UNCHANGED << config, running, bio_num, stores, data_buffer_heap, tls_events, cur >>

(***************************************************************************)
(* nspr_kern.c                                                             *)
(***************************************************************************)
\* #ifndef KERNEL_LESS_5_2 ... #endif around the process filter
nspr_Filtered(pid) == ~KERNEL_LESS_5_2 /\ target_pid # 0 /\ target_pid # pid

\* The pending context is the buffer address; call and task are history.
nspr_active_buf(t, buf, call) == [ buf |-> buf, call |-> call, task |-> t ]

nspr_write_lookup(key) == bpf_map_lookup_elem(active_ssl_write_args_map, key)
\* variant: the read handler looking into the store of the write calls
nspr_read_lookup_in_write_map(key) ==
    bpf_map_lookup_elem(active_ssl_write_args_map, key)
nspr_read_lookup(key) == bpf_map_lookup_elem(active_ssl_read_args_map, key)

nspr_create_ssl_data_event(slot, current_pid_tgid, ts) ==
    [ slot EXCEPT !.timestamp_ns = ts,
                  !.pid = PidOf(current_pid_tgid),
                  !.tid = TidOf(current_pid_tgid) ]

nspr_process_SSL_data(heap, ring, t, cpu, ts, reg, id, type, buf) ==
    LET len == CastInt(reg)
    IN  IF LenRejected(len)
        THEN NoRecord(heap, ring)
        ELSE LET created == nspr_create_ssl_data_event(heap[cpu], id, ts)
                 sized == [ created EXCEPT !.type = type,
                                           !.data_len = DataLen(len) ]
                 rd == bpf_probe_read(sized.data, sized.data_len, buf)
                 event == [ sized EXCEPT !.data = rd.data,
                                         !.comm = CurrentComm(t) ]
                 out == bpf_perf_event_output(ring, cpu, event)
             IN  [ heap |-> [ heap EXCEPT ![cpu] = event ], ring |-> out.ring,
                   nemit |-> 1, queued |-> (out.ret = 0), copy_ok |-> rd.ok,
                   event |-> event ]

\* PRInt32 PR_Write(PRFileDesc *fd, const void *buf, PRInt32 amount), uprobe
nspr_probe_entry_SSL_write(t, buf) ==
    /\ lib = "nspr"
    /\ CanEnter(t)
    /\ LET current_pid_tgid == bpf_get_current_pid_tgid(t)
           pid == PidOf(current_pid_tgid)
           upd == bpf_map_update_elem(active_ssl_write_args_map, current_pid_tgid,
                                      nspr_active_buf(t, buf, now + 1))
           passed == ~nspr_Filtered(pid)
       IN  /\ active_ssl_write_args_map' = IF passed THEN upd.map ELSE active_ssl_write_args_map
           /\ cur' = Entered(t, kSSLWrite, 0, buf, TRUE, passed /\ upd.ret = 0)
           /\ last' = [ Step("entry", t, kSSLWrite) EXCEPT
                          !.call = now + 1, !.passed = passed,
                          !.put = (passed /\ upd.ret = 0) ]
    /\ now' = now + 1
    /\ UNCHANGED << config, running, bio_num, active_ssl_read_args_map, data_buffer_heap, rings >>

\* uretprobe of PR_Write
nspr_probe_ret_SSL_write(t, reg, cpu) ==
    /\ lib = "nspr"
    /\ CanReturn(t, kSSLWrite)
    /\ LET current_pid_tgid == bpf_get_current_pid_tgid(t)
           pid == PidOf(current_pid_tgid)
           passed == ~nspr_Filtered(pid)
           buf == nspr_write_lookup(current_pid_tgid)
           r == IF passed /\ buf # NULL
                THEN nspr_process_SSL_data(
                               data_buffer_heap, tls_events, t, cpu, now + 1, reg,
                               current_pid_tgid, kSSLWrite, buf.buf)
                ELSE NoRecord(data_buffer_heap, tls_events)
       IN  /\ active_ssl_write_args_map' =
                  IF passed
                  THEN bpf_map_delete_elem(active_ssl_write_args_map, current_pid_tgid)
                  ELSE active_ssl_write_args_map
           /\ data_buffer_heap' = r.heap
           /\ tls_events' = r.ring
           /\ last' = [ Step("ret", t, kSSLWrite) EXCEPT
                          !.call = cur[t].id, !.of = cur[t], !.reg = reg,
                          !.cpu = cpu, !.passed = passed,
                          !.found = (passed /\ buf # NULL),
                          !.ctx = IF passed THEN buf ELSE NULL,
                          !.nemit = r.nemit, !.queued = r.queued,
                          !.copy_ok = r.copy_ok, !.event = r.event ]
    /\ cur' = [ cur EXCEPT ![t] = NoCall ]
    /\ now' = now + 1
    /\ UNCHANGED << config, running, bio_num, active_ssl_read_args_map, connect_events >>

\* PRInt32 PR_Read(PRFileDesc *fd, void *buf, PRInt32 amount), uprobe
nspr_probe_entry_SSL_read(t, buf) ==
    /\ lib = "nspr"
    /\ CanEnter(t)
    /\ LET current_pid_tgid == bpf_get_current_pid_tgid(t)
           pid == PidOf(current_pid_tgid)
           upd == bpf_map_update_elem(active_ssl_read_args_map, current_pid_tgid,
                                      nspr_active_buf(t, buf, now + 1))
           passed == ~nspr_Filtered(pid)
       IN  /\ active_ssl_read_args_map' = IF passed THEN upd.map ELSE active_ssl_read_args_map
           /\ cur' = Entered(t, kSSLRead, 0, buf, TRUE, passed /\ upd.ret = 0)
           /\ last' = [ Step("entry", t, kSSLRead) EXCEPT
                          !.call = now + 1, !.passed = passed,
                          !.put = (passed /\ upd.ret = 0) ]
    /\ now' = now + 1
    /\ UNCHANGED << config, running, bio_num, active_ssl_write_args_map, data_buffer_heap, rings >>

\* uretprobe of PR_Read
nspr_probe_ret_SSL_read(t, reg, cpu) ==
    /\ lib = "nspr"
    /\ CanReturn(t, kSSLRead)
    /\ LET current_pid_tgid == bpf_get_current_pid_tgid(t)
           pid == PidOf(current_pid_tgid)
           passed == ~nspr_Filtered(pid)
           buf == nspr_read_lookup(current_pid_tgid)
           r == IF passed /\ buf # NULL
                THEN nspr_process_SSL_data(
                               data_buffer_heap, tls_events, t, cpu, now + 1, reg,
                               current_pid_tgid, kSSLRead, buf.buf)
                ELSE NoRecord(data_buffer_heap, tls_events)
       IN  /\ active_ssl_read_args_map' =
                  IF passed
                  THEN bpf_map_delete_elem(active_ssl_read_args_map, current_pid_tgid)
                  ELSE active_ssl_read_args_map
           /\ data_buffer_heap' = r.heap
           /\ tls_events' = r.ring
           /\ last' = [ Step("ret", t, kSSLRead) EXCEPT
                          !.call = cur[t].id, !.of = cur[t], !.reg = reg,
                          !.cpu = cpu, !.passed = passed,
                          !.found = (passed /\ buf # NULL),
                          !.ctx = IF passed THEN buf ELSE NULL,
                          !.nemit = r.nemit, !.queued = r.queued,
                          !.copy_ok = r.copy_ok, !.event = r.event ]
    /\ cur' = [ cur EXCEPT ![t] = NoCall ]
    /\ now' = now + 1
    /\ UNCHANGED << config, running, bio_num, active_ssl_write_args_map, connect_events >>

(***************************************************************************)
(* The return handlers step by step.  The four uretprobe handlers have the *)
(* same text but for the store they use and the type they pass: the filter,*)
(* the lookup and process_SSL_data are the first step, the delete is the   *)
(* second, and handlers of other tasks run between the two.                *)
(***************************************************************************)
\* uretprobe handler of the call task t is inside, up to process_SSL_data
probe_ret_lookup(t, reg, cpu) ==
    /\ lib \in { "openssl", "nspr" }
    /\ CanReturn(t, cur[t].dir)
    /\ LET dir == cur[t].dir
           current_pid_tgid == bpf_get_current_pid_tgid(t)
           pid == PidOf(current_pid_tgid)
           passed == IF lib = "nspr" THEN ~nspr_Filtered(pid) ELSE ~Filtered(pid)
           found == IF lib = "nspr"
                    THEN IF dir = kSSLRead THEN nspr_read_lookup(current_pid_tgid)
                                           ELSE nspr_write_lookup(current_pid_tgid)
                    ELSE IF dir = kSSLRead THEN openssl_read_lookup(current_pid_tgid)
                                           ELSE openssl_write_lookup(current_pid_tgid)
           r == IF passed /\ found # NULL
                THEN IF lib = "nspr"
                     THEN nspr_process_SSL_data(
                               data_buffer_heap, tls_events, t, cpu, now + 1, reg,
                               current_pid_tgid, dir, found.buf)
                     ELSE openssl_process_SSL_data(
                               data_buffer_heap, tls_events, t, cpu, now + 1, reg,
                               current_pid_tgid, dir, found.buf, found.fd)
                ELSE NoRecord(data_buffer_heap, tls_events)
           did == [ Step("ret", t, dir) EXCEPT
                      !.call = cur[t].id, !.of = cur[t], !.reg = reg,
                      !.cpu = cpu, !.passed = passed,
                      !.found = (passed /\ found # NULL),
                      !.ctx = IF passed THEN found ELSE NULL,
                      !.nemit = r.nemit, !.queued = r.queued,
                      !.copy_ok = r.copy_ok, !.event = r.event ]
       IN  /\ data_buffer_heap' = r.heap
           /\ tls_events' = r.ring
           /\ IF passed
              THEN /\ running' = [ running EXCEPT ![t] = did ]
                   /\ last' = [ did EXCEPT !.op = "lookup" ]
                   /\ UNCHANGED cur
              ELSE /\ last' = did
                   /\ cur' = [ cur EXCEPT ![t] = NoCall ]
                   /\ UNCHANGED running
    /\ now' = now + 1
    /\ UNCHANGED << config, bio_num, stores, connect_events >>

\* the rest of the handler: bpf_map_delete_elem and return 0
probe_ret_delete(t) ==
    /\ running[t] # NULL
    /\ LET current_pid_tgid == bpf_get_current_pid_tgid(t)
       IN  IF running[t].dir = kSSLRead
           THEN /\ active_ssl_read_args_map' =
                       bpf_map_delete_elem(active_ssl_read_args_map, current_pid_tgid)
                /\ UNCHANGED active_ssl_write_args_map
           ELSE /\ active_ssl_write_args_map' =
                       bpf_map_delete_elem(active_ssl_write_args_map, current_pid_tgid)
                /\ UNCHANGED active_ssl_read_args_map
    /\ last' = running[t]
    /\ running' = [ running EXCEPT ![t] = NULL ]
    /\ cur' = [ cur EXCEPT ![t] = NoCall ]
    /\ now' = now + 1
    /\ UNCHANGED << config, bio_num, data_buffer_heap, rings >>

(***************************************************************************)
(* The rest of the environment.                                            *)
(***************************************************************************)
\* A call is entered while its entry probe does not fire (the probe is
\* attached while the call is in progress).
EnterUnobserved(t, dir) ==
    /\ lib # "connect"
    /\ CanEnter(t)
    /\ cur' = Entered(t, dir, 0, 0, FALSE, FALSE)
    /\ last' = [ Step("miss_entry", t, dir) EXCEPT !.call = now + 1 ]
    /\ now' = now + 1
    /\ UNCHANGED << config, running, bio_num, stores, data_buffer_heap, rings >>

\* A call is left while its return probe does not fire (the thread exits,
\* the call never returns, or the probe is detached).
ReturnUnobserved(t) ==
    /\ cur[t] # NoCall
    /\ running[t] = NULL
    /\ cur' = [ cur EXCEPT ![t] = NoCall ]
    /\ last' = [ Step("miss_ret", t, cur[t].dir) EXCEPT !.call = cur[t].id ]
    /\ now' = now + 1
    /\ UNCHANGED << config, running, bio_num, stores, data_buffer_heap, rings >>

\* The traced process changes the descriptor of a BIO (BIO_set_fd).
BIO_set_fd(bio, fd) ==
    /\ lib = "openssl"
    /\ bio_num[bio] # fd
    /\ bio_num' = [ bio_num EXCEPT ![bio] = fd ]
    /\ last' = Step("bio", << 0, 0 >>, kSSLRead)
    /\ now' = now + 1
    /\ UNCHANGED << config, running, stores, data_buffer_heap, rings, cur >>

\* The consumer takes the oldest record of a ring.
perf_reader_tls(cpu) ==
    /\ tls_events[cpu] # << >>
    /\ tls_events' = [ tls_events EXCEPT ![cpu] = Tail(@) ]
    /\ last' = [ Step("consume", << 0, 0 >>, kSSLRead) EXCEPT
                   !.cpu = cpu, !.event = Head(tls_events[cpu]) ]
    /\ now' = now + 1
    /\ UNCHANGED << config, running, bio_num, stores, data_buffer_heap, connect_events,
                    cur >>

perf_reader_connect(cpu) ==
    /\ now < MaxConnects
    /\ connect_events[cpu] # << >>
    /\ connect_events' = [ connect_events EXCEPT ![cpu] = Tail(@) ]
    /\ last' = Step("consume", << 0, 0 >>, kSSLRead)
    /\ now' = now + 1
    /\ UNCHANGED << config, running, bio_num, stores, data_buffer_heap, tls_events,
                    cur >>

\* The zeroed scratch record of a cpu (a BPF array map starts zeroed).
ZeroEvent(l) ==
    IF l # "nspr"
    THEN [ type |-> 0, timestamp_ns |-> 0, pid |-> 0, tid |-> 0,
           data |-> Zeros(MAX_DATA_SIZE_OPENSSL), data_len |-> 0,
           comm |-> "", fd |-> 0 ]
    ELSE [ type |-> 0, timestamp_ns |-> 0, pid |-> 0, tid |-> 0,
           data |-> Zeros(MAX_DATA_SIZE_OPENSSL), data_len |-> 0,
           comm |-> "" ]

\* The state after the loader has created the maps, with rings of cap
\* records.
InitWith(cap) ==
    /\ lib \in { "openssl", "connect", "nspr" }
    /\ KERNEL_LESS_5_2 \in BOOLEAN
    /\ lib # "nspr" => KERNEL_LESS_5_2 = FALSE
    /\ target_pid \in TargetPids
    /\ bio_num = [ b \in BioAddrs |-> b + 2 ]
    /\ active_ssl_read_args_map = EmptyMap
    /\ active_ssl_write_args_map = EmptyMap
    /\ data_buffer_heap = [ c \in CPUs |-> ZeroEvent(lib) ]
    /\ tls_events = [ c \in CPUs |-> << >> ]
    /\ connect_events = [ c \in CPUs |-> << >> ]
    /\ perf_cap = cap
    /\ now = 0
    /\ running = [ t \in Tasks |-> NULL ]
    /\ cur = [ t \in Tasks |-> NoCall ]
    /\ last = Step("init", << 0, 0 >>, kSSLRead)
    /\ log = << >>

Init == InitWith(PerfCap)

\* What the history keeps of a step: what it did, the calls in progress and
\* the descriptors of the transports after it.
Snapshot == [ last |-> last, cur |-> cur, bio_num |-> bio_num ]
Logged == log' = Append(log, Snapshot')

\* The events of the traced processes within the first T clock ticks, with
\* the return register drawn from the set Regs.
Events(Regs, T) ==
    \/ \E t \in Tasks, a \in SslCallArgs :
           now < T /\ openssl_probe_entry_SSL_write(t, a[1], a[2]) /\ Logged
    \/ \E t \in Tasks, reg \in Regs, cpu \in CPUs :
           now < T /\ openssl_probe_ret_SSL_write(t, reg, cpu) /\ Logged
    \/ \E t \in Tasks, a \in SslCallArgs :
           now < T /\ openssl_probe_entry_SSL_read(t, a[1], a[2]) /\ Logged
    \/ \E t \in Tasks, reg \in Regs, cpu \in CPUs :
           now < T /\ openssl_probe_ret_SSL_read(t, reg, cpu) /\ Logged
    \/ \E t \in Tasks, fdreg \in ConnectFdRegs, saddr \in SockAddrs, cpu \in CPUs :
           now < T /\ probe_connect(t, fdreg, saddr, cpu) /\ Logged
    \/ \E t \in Tasks, buf \in BufAddrs :
           now < T /\ nspr_probe_entry_SSL_write(t, buf) /\ Logged
    \/ \E t \in Tasks, reg \in Regs, cpu \in CPUs :
           now < T /\ nspr_probe_ret_SSL_write(t, reg, cpu) /\ Logged
    \/ \E t \in Tasks, buf \in BufAddrs :
           now < T /\ nspr_probe_entry_SSL_read(t, buf) /\ Logged
    \/ \E t \in Tasks, reg \in Regs, cpu \in CPUs :
           now < T /\ nspr_probe_ret_SSL_read(t, reg, cpu) /\ Logged
    \/ \E t \in Tasks, dir \in { kSSLRead, kSSLWrite } :
           now < T /\ EnterUnobserved(t, dir) /\ Logged
    \/ \E t \in Tasks : now < T /\ ReturnUnobserved(t) /\ Logged
    \/ \E bio \in BioAddrs, fd \in FdValues : now < T /\ BIO_set_fd(bio, fd) /\ Logged
    \/ \E cpu \in CPUs : now < T /\ perf_reader_tls(cpu) /\ Logged
    \/ \E cpu \in CPUs : now < T /\ perf_reader_connect(cpu) /\ Logged

Next == Events(RetSample, MaxTime)

Spec == Init /\ [][Next]_vars

\* Shorter behaviours in which a return leaves any value in the register.
NextReturn == Events(RetRegs, MaxReturnTime)

SpecReturn == Init /\ [][NextReturn]_vars

\* Longer behaviours with rings of two records, in which every process is
\* captured and every call returns the same count: the records are followed
\* to the consumer.
RetOrder == { MAX_DATA_SIZE_OPENSSL - 1 }

InitOrder ==
    /\ InitWith(PerfCap + 1)
    /\ target_pid = 0
    /\ ~KERNEL_LESS_5_2

NextOrder == Events(RetOrder, MaxOrderTime)

SpecOrder == InitOrder /\ [][NextOrder]_vars

\* Behaviours in which the return handlers run step by step, every process
\* is captured and every call returns the same count.
InitTake ==
    /\ InitWith(PerfCap)
    /\ lib # "connect"
    /\ target_pid = 0
    /\ ~KERNEL_LESS_5_2

NextTake ==
    \/ \E t \in Tasks, a \in SslCallArgs :
           now < MaxTakeTime /\ openssl_probe_entry_SSL_write(t, a[1], a[2]) /\ Logged
    \/ \E t \in Tasks, a \in SslCallArgs :
           now < MaxTakeTime /\ openssl_probe_entry_SSL_read(t, a[1], a[2]) /\ Logged
    \/ \E t \in Tasks, buf \in BufAddrs :
           now < MaxTakeTime /\ nspr_probe_entry_SSL_write(t, buf) /\ Logged
    \/ \E t \in Tasks, buf \in BufAddrs :
           now < MaxTakeTime /\ nspr_probe_entry_SSL_read(t, buf) /\ Logged
    \/ \E t \in Tasks, reg \in RetOrder, cpu \in CPUs :
           now < MaxTakeTime /\ probe_ret_lookup(t, reg, cpu) /\ Logged
    \/ \E t \in Tasks : now < MaxTakeTime /\ probe_ret_delete(t) /\ Logged
    \/ \E t \in Tasks, dir \in { kSSLRead, kSSLWrite } :
           now < MaxTakeTime /\ EnterUnobserved(t, dir) /\ Logged
    \/ \E t \in Tasks : now < MaxTakeTime /\ ReturnUnobserved(t) /\ Logged

SpecTake == InitTake /\ [][NextTake]_vars

(***************************************************************************)
(* Vocabulary of the properties.  It is written from the traced process's  *)
(* side (what the call returned, which bytes its buffer holds), not from   *)
(* the handlers' computations.                                             *)
(***************************************************************************)
Min(a, b) == IF a < b THEN a ELSE b

\* the int the call returned is negative / its value when it is not
ReturnedNegative(reg) == (reg % IntModulus) >= IntModulus \div 2
ReturnedCount(reg) == reg % IntModulus

\* the (pid, tid) key of a task
KeyOfTask(t) == t[1] * IntModulus + t[2]

PendingAt(m, k) == IF k \in DOMAIN m THEN m[k] ELSE NULL
StoreOf(dir) ==
    IF dir = kSSLRead THEN active_ssl_read_args_map ELSE active_ssl_write_args_map

RetStep == last.op = "ret"
HandlerStep == last.op \in { "entry", "ret", "connect" }
\* the store of direction dir after the step
StoreOfNext(dir) ==
    IF dir = kSSLRead THEN active_ssl_read_args_map' ELSE active_ssl_write_args_map'
Payload(event) == [ i \in 1 .. event.data_len |-> event.data[i] ]

\* the resolver can read ssl and the transport of direction dir
FdResolvable(ssl, dir) ==
    /\ SslReadable(ssl)
    /\ (IF dir = kSSLRead THEN SslObject(ssl).rbio ELSE SslObject(ssl).wbio)
           \in BioAddrs

\* The history: step i was an entry / a return interception of direction
\* dir by task t that passed the process filter.
Steps == 1 .. Len(log)
IsEntry(i, t, dir) ==
    /\ log[i].last.op = "entry" /\ log[i].last.passed
    /\ log[i].last.task = t /\ log[i].last.dir = dir
IsRet(i, t, dir) ==
    /\ log[i].last.op = "ret" /\ log[i].last.passed
    /\ log[i].last.task = t /\ log[i].last.dir = dir
\* no interception of direction dir by task t strictly between i and j
NoneBetween(i, j, t, dir) ==
    \A m \in (i + 1) .. (j - 1) : ~IsEntry(m, t, dir) /\ ~IsRet(m, t, dir)
\* steps i and j are two entry interceptions of one key and direction with
\* no interception of that key and direction between them
EntryPair(i, j) ==
    /\ i < j
    /\ log[i].last.op = "entry" /\ log[i].last.passed
    /\ IsEntry(j, log[i].last.task, log[i].last.dir)
    /\ NoneBetween(i, j, log[i].last.task, log[i].last.dir)
\* step k is the first return interception of the key and direction of the
\* entry interception j after it
NextRet(j, k) ==
    /\ j < k
    /\ IsRet(k, log[j].last.task, log[j].last.dir)
    /\ NoneBetween(j, k, log[j].last.task, log[j].last.dir)
\* the call entered at step j, as the traced process made it
CallAt(j) == log[j].cur[log[j].last.task]
\* the descriptor the transport of direction dir of ssl holds when the
\* descriptors are nums; invalidFD when ssl or the transport is unreadable
FdOf(nums, ssl, dir) ==
    IF FdResolvable(ssl, dir)
    THEN nums[IF dir = kSSLRead THEN SslObject(ssl).rbio ELSE SslObject(ssl).wbio]
    ELSE invalidFD
\* the first n bytes the traced process holds at buf, zeros when unreadable
BytesAt(buf, n) == IF Readable(buf, n) THEN UserBytes(buf, n) ELSE Zeros(n)
\* the return interception of step k built its record, if any, from the
\* buffer address and the descriptor of the entry interception of step j
BuiltFrom(k, j) ==
    /\ log[k].last.found
    /\ log[k].last.ctx.call = log[j].last.call
    /\ log[k].last.ctx.buf = CallAt(j).buf
    /\ lib = "openssl" =>
           log[k].last.ctx.fd = FdOf(log[j].bio_num, CallAt(j).ssl, log[j].last.dir)
    /\ log[k].last.nemit = 1 =>
           /\ Payload(log[k].last.event)
                  = BytesAt(CallAt(j).buf, log[k].last.event.data_len)
           /\ lib = "openssl" =>
                  log[k].last.event.fd
                      = FdOf(log[j].bio_num, CallAt(j).ssl, log[j].last.dir)
\* the first of two entry interceptions is used by no return interception
NeverUsed(i) ==
    \A k \in Steps :
        (log[k].last.op = "ret" /\ log[k].last.found)
            => log[k].last.ctx.call # log[i].last.call
\* the store holds the context of the entry interception of step j
Holds(j) ==
    LET c == PendingAt(StoreOf(log[j].last.dir), KeyOfTask(log[j].last.task))
    IN  c # NULL /\ c.call = log[j].last.call /\ c.buf = CallAt(j).buf

\* step i delivered a Capture Record to the consumer
IsConsume(i) == log[i].last.op = "consume" /\ log[i].last.event # NoEvent
SameThread(e, f) == e.pid = f.pid /\ e.tid = f.tid
\* the return interception that emitted the record delivered at step i
EmittedAt(i, k) ==
    /\ k < i
    /\ log[k].last.op = "ret" /\ log[k].last.queued
    /\ log[k].last.event = log[i].last.event

(***************************************************************************)
(* C1.  As stated: every traced call whose entry interception is observed  *)
(* and whose return value is >= 0 has exactly one Capture Record emitted   *)
(* at its return.  This fails when the entry handler's insert is refused   *)
(* by a full store.                                                        *)
(***************************************************************************)
C1_OneRecordPerObservedCall ==
    (RetStep /\ last.passed /\ last.of.probed /\ ~ReturnedNegative(last.reg))
        => last.nemit = 1

\* C1, amended: a return interception hands at most one record to the
\* channel; when the call's entry handler stored its pending context and
\* the return value is >= 0 it hands over exactly one, built from that
\* context, and the ring of its cpu takes the record unless it is full;
\* when the store refused the context and none is pending, none is emitted.
C1_OneRecordPerStoredCall ==
    /\ last.nemit \in { 0, 1 }
    /\ (RetStep /\ last.of.stored /\ ~ReturnedNegative(last.reg))
           => /\ last.nemit = 1
              /\ last.found
              /\ last.ctx.call = last.call
              /\ last.event.timestamp_ns = now
              /\ last.queued =>
                     tls_events[last.cpu][Len(tls_events[last.cpu])] = last.event
              /\ ~last.queued => Len(tls_events[last.cpu]) = PerfCap
    /\ (RetStep /\ last.of.probed /\ ~last.of.stored /\ ~last.found)
           => last.nemit = 0

C1_Witness ==
    /\ RetStep /\ last.of.stored /\ ~ReturnedNegative(last.reg)
    /\ last.nemit = 1 /\ last.queued

(***************************************************************************)
(* C2.  A return interception of a call whose return value, read as a      *)
(* signed int, is negative emits no record: bpf_perf_event_output is not   *)
(* called and the rings are left as they were, with or without a pending   *)
(* context.                                                                *)
(***************************************************************************)
C2_NegativeReturnEmitsNothing ==
    [][ (last'.op = "ret" /\ ReturnedNegative(last'.reg))
            => /\ last'.nemit = 0
               /\ last'.event = NoEvent
               /\ tls_events' = tls_events
               /\ connect_events' = connect_events ]_vars

C2_Witness == RetStep /\ ReturnedNegative(last.reg) /\ last.found

(***************************************************************************)
(* C3.  As stated: a record is emitted only when the pending context the   *)
(* return interception consumes was stored by the entry of that same call. *)
(***************************************************************************)
C3_RecordOnlyFromOwnEntry ==
    (RetStep /\ last.nemit = 1) => (last.found /\ last.ctx.call = last.call)

\* C3, amended: a return interception that finds no pending context emits
\* nothing; one that emits found a context stored by an entry interception
\* of the same task, which is the entry of the same call whenever that
\* entry stored a context, and otherwise a context left behind by an
\* earlier call of the task.
C3_RecordOnlyFromPendingContext ==
    RetStep =>
        /\ last.nemit = 1 => last.found
        /\ ~last.found => (last.nemit = 0 /\ last.event = NoEvent)
        /\ last.found =>
               /\ last.ctx.task = last.task
               /\ last.ctx.call <= last.call
               /\ last.of.stored => last.ctx.call = last.call
               /\ last.ctx.call # last.call => ~last.of.stored

C3_Witness ==
    /\ RetStep /\ last.found /\ last.nemit = 1
    /\ ~last.of.probed /\ last.ctx.call < last.call

(***************************************************************************)
(* C4.  For a return value r >= 0 the data_len of the emitted record is    *)
(* min(r, MAX_DATA_SIZE_OPENSSL): never negative, never above the capacity.*)
(***************************************************************************)
C4_DataLenIsMin ==
    (RetStep /\ last.nemit = 1)
        => /\ last.event.data_len =
                  Min(ReturnedCount(last.reg), MAX_DATA_SIZE_OPENSSL)
           /\ last.event.data_len >= 0
           /\ last.event.data_len <= MAX_DATA_SIZE_OPENSSL
           /\ last.event.data_len <= Len(last.event.data)

C4_Witness ==
    /\ RetStep /\ last.nemit = 1
    /\ ReturnedCount(last.reg) > MAX_DATA_SIZE_OPENSSL
    /\ last.event.data_len = MAX_DATA_SIZE_OPENSSL

(***************************************************************************)
(* C5.  For a traced write that returned N whose buffer is readable, the   *)
(* first data_len bytes of the record are the first min(N, MAX) bytes at   *)
(* the buffer address passed at entry.                                     *)
(***************************************************************************)
C5_PayloadIsBufferPrefix ==
    LET n == Min(ReturnedCount(last.reg), MAX_DATA_SIZE_OPENSSL)
    IN  (/\ RetStep /\ last.dir = kSSLWrite /\ last.of.stored
         /\ ~ReturnedNegative(last.reg)
         /\ Readable(last.of.buf, n))
            => /\ last.nemit = 1
               /\ last.event.type = kSSLWrite
               /\ last.event.data_len = n
               /\ Payload(last.event) = UserBytes(last.of.buf, n)

C5_Witness ==
    /\ RetStep /\ last.dir = kSSLWrite /\ last.of.stored /\ last.nemit = 1
    /\ ReturnedCount(last.reg) > MAX_DATA_SIZE_OPENSSL
    /\ ~ReturnedNegative(last.reg)
    /\ Payload(last.event) = UserBytes(last.of.buf, MAX_DATA_SIZE_OPENSSL)

(***************************************************************************)
(* C6.  No cross-thread attribution: a handler run by a task changes no    *)
(* pending context stored under the key of another task, every pending     *)
(* context is stored under the key of the task whose entry stored it, and  *)
(* an emitted record carries the pid and tid of that task.                 *)
(***************************************************************************)
C6_NoCrossThreadAttribution ==
    [][ (last'.op \in { "entry", "ret" })
            => /\ \A u \in Tasks :
                      u # last'.task =>
                          /\ PendingAt(active_ssl_read_args_map', KeyOfTask(u))
                                 = PendingAt(active_ssl_read_args_map, KeyOfTask(u))
                          /\ PendingAt(active_ssl_write_args_map', KeyOfTask(u))
                                 = PendingAt(active_ssl_write_args_map, KeyOfTask(u))
               /\ \A k \in DOMAIN active_ssl_read_args_map' :
                      KeyOfTask(active_ssl_read_args_map'[k].task) = k
               /\ \A k \in DOMAIN active_ssl_write_args_map' :
                      KeyOfTask(active_ssl_write_args_map'[k].task) = k
               /\ last'.nemit = 1 =>
                      /\ last'.ctx.task = last'.task
                      /\ last'.event.pid = last'.ctx.task[1]
                      /\ last'.event.tid = last'.ctx.task[2] ]_vars

C6_Witness ==
    /\ RetStep /\ last.nemit = 1
    /\ \E u \in Tasks :
           /\ u # last.task
           /\ cur[u].stored
           /\ PendingAt(StoreOf(cur[u].dir), KeyOfTask(u)) # NULL
           /\ PendingAt(StoreOf(cur[u].dir), KeyOfTask(u)).call = cur[u].id

\* The process filter is in force: with target_pid zero every handler run
\* passes it; with target_pid non-zero only the handlers run by target_pid
\* pass it, and the stores and the rings hold nothing of another process.
FilterHolds ==
    /\ (target_pid = 0 /\ HandlerStep) => last.passed
    /\ target_pid # 0 =>
           /\ \A k \in DOMAIN active_ssl_read_args_map \cup
                       DOMAIN active_ssl_write_args_map :
                  k \div IntModulus = target_pid
           /\ \A c \in CPUs :
                  /\ \A i \in 1 .. Len(tls_events[c]) :
                         tls_events[c][i].pid = target_pid
                  /\ \A i \in 1 .. Len(connect_events[c]) :
                         connect_events[c][i].pid = target_pid
           /\ (HandlerStep /\ last.task[1] # target_pid)
                  => (~last.passed /\ ~last.put /\ last.nemit = 0)
           /\ (HandlerStep /\ last.task[1] = target_pid) => last.passed

(***************************************************************************)
(* C7.  As stated: with target_pid zero every process is captured, and     *)
(* with target_pid non-zero nothing is stored or emitted for a process     *)
(* other than target_pid, in the NSPR and the OpenSSL paths alike.         *)
(***************************************************************************)
C7_FilterInBothPaths ==
    lib \in { "openssl", "connect", "nspr" } => FilterHolds

\* C7, amended: the filter is applied by the OpenSSL handlers and the
\* connect handler, and by the NSPR handlers unless nspr_kern.c is built
\* with KERNEL_LESS_5_2; an NSPR build with KERNEL_LESS_5_2 captures the
\* calls of every process whatever target_pid is.
C7_FilterUnlessKernelLess52 ==
    /\ ~(lib = "nspr" /\ KERNEL_LESS_5_2) => FilterHolds
    /\ (lib = "nspr" /\ KERNEL_LESS_5_2 /\ HandlerStep) => last.passed

C7_Witness ==
    /\ lib = "nspr" /\ ~KERNEL_LESS_5_2
    /\ RetStep /\ target_pid # 0 /\ last.task[1] # target_pid
    /\ ~last.passed /\ last.of.probed /\ ~ReturnedNegative(last.reg)

(***************************************************************************)
(* C8.  A connection attempt that passes the process filter emits one      *)
(* Connection Record when the family read from the sockaddr is AF_INET,    *)
(* carrying the descriptor argument and the sa_data bytes of the sockaddr, *)
(* and none otherwise.                                                     *)
(***************************************************************************)
C8_ConnectFiltering ==
    (last.op = "connect" /\ last.passed) =>
        IF FamilyReadable(last.arg) /\ SaFamily(last.arg) = AF_INET
        THEN /\ last.nemit = 1
             /\ last.event.fd = last.reg % IntModulus
             /\ last.event.pid = last.task[1]
             /\ last.event.tid = last.task[2]
             /\ last.event.timestamp_ns = now
             /\ SaDataReadable(last.arg) => last.event.sa_data = SaData(last.arg)
             /\ last.queued =>
                    connect_events[last.cpu][Len(connect_events[last.cpu])]
                        = last.event
        ELSE /\ last.nemit = 0
             /\ last.event = NoEvent

C8_Witness ==
    /\ last.op = "connect" /\ last.nemit = 1 /\ last.queued
    /\ SaDataReadable(last.arg)
    /\ last.event.sa_data = SaData(last.arg)
    /\ last.reg >= IntModulus

(***************************************************************************)
(* C9.  When the connection object or its transport cannot be read, the    *)
(* entry handler still stores the pending context, with invalidFD as the   *)
(* descriptor, and the call's record carries invalidFD.                    *)
(***************************************************************************)
C9_UnresolvedDescriptorIsSentinel ==
    /\ (/\ lib = "openssl" /\ last.op = "entry" /\ last.passed
        /\ ~FdResolvable(cur[last.task].ssl, last.dir))
           => /\ last.put \/ Cardinality(DOMAIN StoreOf(last.dir)) >= MaxEntries
              /\ last.put =>
                     /\ PendingAt(StoreOf(last.dir), KeyOfTask(last.task)) # NULL
                     /\ PendingAt(StoreOf(last.dir), KeyOfTask(last.task)).fd
                            = invalidFD
                     /\ PendingAt(StoreOf(last.dir), KeyOfTask(last.task)).buf
                            = cur[last.task].buf
    /\ (/\ lib = "openssl" /\ RetStep /\ last.of.stored
        /\ ~ReturnedNegative(last.reg)
        /\ ~FdResolvable(last.of.ssl, last.dir))
           => /\ last.nemit = 1
              /\ last.event.fd = invalidFD

C9_Witness ==
    /\ lib = "openssl" /\ RetStep /\ last.of.stored
    /\ last.dir = kSSLWrite
    /\ SslReadable(last.of.ssl) /\ ~FdResolvable(last.of.ssl, last.dir)
    /\ last.nemit = 1 /\ last.event.fd = invalidFD
    /\ last.event.data_len > 0 /\ last.copy_ok

(***************************************************************************)
(* C10.  When the payload copy from the stored buffer address faults, the  *)
(* emitted record has data_len zero.  The handlers set data_len before the *)
(* copy and ignore the result of bpf_probe_read.                           *)
(***************************************************************************)
C10_FailedCopyHasZeroLength ==
    (/\ RetStep /\ last.nemit = 1
     /\ ~Readable(last.ctx.buf,
                  Min(ReturnedCount(last.reg), MAX_DATA_SIZE_OPENSSL)))
        => last.event.data_len = 0

(***************************************************************************)
(* C11.  Channel saturation: a return interception that has a record to    *)
(* emit while the ring of its cpu is full loses the record; the rings are  *)
(* left as they were, the output is tried once, the call goes on, and the  *)
(* pending context of the key is removed all the same.                     *)
(***************************************************************************)
C11_FullRingDropsRecord ==
    [][ (/\ last'.op = "ret" /\ last'.nemit >= 1
         /\ Len(tls_events[last'.cpu]) >= perf_cap)
            => /\ ~last'.queued
               /\ last'.nemit = 1
               /\ tls_events' = tls_events
               /\ connect_events' = connect_events
               /\ PendingAt(StoreOfNext(last'.dir), KeyOfTask(last'.task)) = NULL
               /\ PendingAt(StoreOf(last'.dir), KeyOfTask(last'.task)) = last'.ctx
               /\ cur'[last'.task] = NoCall ]_vars

C11_Witness ==
    /\ RetStep /\ last.of.stored /\ last.nemit = 1 /\ ~last.queued
    /\ Len(tls_events[last.cpu]) = perf_cap
    /\ tls_events[last.cpu][1] # last.event
    /\ PendingAt(StoreOf(last.dir), KeyOfTask(last.task)) = NULL

(***************************************************************************)
(* C12.  Store capacity: neither store ever holds more than max_entries    *)
(* pending contexts.  An entry interception whose key is already present   *)
(* overwrites the value, also in a full store; one whose key is absent     *)
(* inserts it when there is room and leaves a full store as it was, the    *)
(* call going on in every case.                                            *)
(***************************************************************************)
C12_StoreCapacity ==
    [][ /\ Cardinality(DOMAIN active_ssl_read_args_map') <= MaxEntries
        /\ Cardinality(DOMAIN active_ssl_write_args_map') <= MaxEntries
        /\ (last'.op = "entry" /\ last'.passed) =>
               LET before == StoreOf(last'.dir)
                   after == StoreOfNext(last'.dir)
                   k == KeyOfTask(last'.task)
               IN  /\ cur'[last'.task].id = last'.call
                   /\ \A x \in DOMAIN before \ { k } :
                          x \in DOMAIN after /\ after[x] = before[x]
                   /\ IF k \in DOMAIN before
                      THEN /\ last'.put
                           /\ DOMAIN after = DOMAIN before
                           /\ after[k].call = last'.call
                           /\ after[k].buf = cur'[last'.task].buf
                      ELSE IF Cardinality(DOMAIN before) >= MaxEntries
                      THEN /\ ~last'.put
                           /\ after = before
                      ELSE /\ last'.put
                           /\ DOMAIN after = DOMAIN before \cup { k }
                           /\ after[k].call = last'.call
                           /\ after[k].buf = cur'[last'.task].buf ]_vars

C12_Witness ==
    /\ last.op = "entry" /\ last.passed /\ ~last.put
    /\ Cardinality(DOMAIN StoreOf(last.dir)) = MaxEntries
    /\ KeyOfTask(last.task) \notin DOMAIN StoreOf(last.dir)
    /\ cur[last.task].id = last.call

\* an entry interception overwrites the context of its key in a full store
C12_WitnessOverwrite ==
    /\ last.op = "entry" /\ last.passed /\ last.put
    /\ Cardinality(DOMAIN StoreOf(last.dir)) = MaxEntries
    /\ \E i \in 1 .. (Len(log) - 1) :
           /\ log[i].last.op = "entry" /\ log[i].last.put
           /\ log[i].last.task = last.task /\ log[i].last.dir = last.dir
           /\ \A j \in (i + 1) .. (Len(log) - 1) :
                  ~(log[j].last.op = "ret" /\ log[j].last.task = last.task)

(***************************************************************************)
(* C13.  As stated: put inserts or overwrites unconditionally, so after    *)
(* two entry interceptions of one key and direction with no return         *)
(* interception between them the store holds the second context, the next  *)
(* return interception of the key builds its record from the second        *)
(* entry's buffer address and descriptor, and the first context is used    *)
(* for no record.  This fails when the store is full of other keys.        *)
(***************************************************************************)
C13_LastEntryWins ==
    \A i, j \in Steps :
        EntryPair(i, j) =>
            /\ j = Len(log) => Holds(j)
            /\ \A k \in Steps : NextRet(j, k) => BuiltFrom(k, j)
            /\ NeverUsed(i)

\* C13, amended: the second entry's context replaces the first whenever its
\* insert is accepted, which it is when the first context is in the store
\* (also in a full store) or when the store has room; the next return
\* interception then builds its record from the second entry's buffer
\* address and descriptor.  When the store is full and holds no entry for
\* the key both inserts are refused and the next return interception finds
\* nothing.  The first context is used for no record in either case.
C13_LastAcceptedEntryWins ==
    \A i, j \in Steps :
        EntryPair(i, j) =>
            /\ log[i].last.put => log[j].last.put
            /\ log[j].last.put =>
                   /\ j = Len(log) => Holds(j)
                   /\ \A k \in Steps : NextRet(j, k) => BuiltFrom(k, j)
            /\ ~log[j].last.put =>
                   /\ ~log[i].last.put
                   /\ j = Len(log) =>
                          PendingAt(StoreOf(log[j].last.dir),
                                    KeyOfTask(log[j].last.task)) = NULL
                   /\ \A k \in Steps :
                          NextRet(j, k) =>
                              (~log[k].last.found /\ log[k].last.nemit = 0)
            /\ NeverUsed(i)

C13_Witness ==
    \E i, j \in Steps :
        /\ EntryPair(i, j) /\ log[i].last.put
        /\ NextRet(j, Len(log)) /\ BuiltFrom(Len(log), j)
        /\ CallAt(i).buf # CallAt(j).buf
        /\ last.nemit = 1 /\ last.event.data_len > 0 /\ last.copy_ok

(***************************************************************************)
(* C14.  As stated: the records of the calls of one thread are delivered   *)
(* to the consumer in the order in which the calls returned, whatever the  *)
(* cpus the thread returned on.  The rings are per cpu and nothing orders  *)
(* the records of two rings.                                               *)
(***************************************************************************)
C14_PerThreadOrder ==
    /\ \A i, j \in Steps :
           (/\ i < j /\ IsConsume(i) /\ IsConsume(j) /\ lib # "connect"
            /\ SameThread(log[i].last.event, log[j].last.event))
               => \A k, m \in Steps :
                      (EmittedAt(i, k) /\ EmittedAt(j, m)) => k < m
    \* a record is delivered only after the queued records of the earlier
    \* returns of its thread
    /\ (lib # "connect" /\ last.op = "consume") =>
           \A c \in CPUs : \A n \in 1 .. Len(tls_events[c]) :
               SameThread(tls_events[c][n], last.event)
                   => tls_events[c][n].timestamp_ns > last.event.timestamp_ns

\* C14, amended: the records a thread emitted on one cpu are delivered in
\* the order in which its calls returned (a ring is first in, first out);
\* every record carries the clock value of its return interception, which
\* grows with the order of the returns, and nothing else orders the records
\* of two cpus.
C14_PerThreadOrderOnOneCpu ==
    /\ \A i, j \in Steps :
           (/\ i < j /\ IsConsume(i) /\ IsConsume(j) /\ lib # "connect"
            /\ log[i].last.cpu = log[j].last.cpu)
               => \A k, m \in Steps :
                      (EmittedAt(i, k) /\ EmittedAt(j, m)) => k < m
    /\ (lib # "connect" /\ last.op = "consume") =>
           /\ \E k \in Steps : EmittedAt(Len(log), k)
           /\ \A k \in Steps :
                  EmittedAt(Len(log), k) => last.event.timestamp_ns = k
           /\ \A n \in 1 .. Len(tls_events[last.cpu]) :
                  tls_events[last.cpu][n].timestamp_ns > last.event.timestamp_ns
    /\ \A c \in CPUs : \A n \in 1 .. Len(tls_events[c]) :
           \E k \in Steps :
               /\ log[k].last.op = "ret" /\ log[k].last.queued
               /\ log[k].last.cpu = c
               /\ log[k].last.event = tls_events[c][n]
               /\ tls_events[c][n].timestamp_ns = k

C14_Witness ==
    /\ lib # "connect" /\ last.op = "consume"
    /\ tls_events[last.cpu] # << >>
    /\ SameThread(tls_events[last.cpu][1], last.event)
    /\ tls_events[last.cpu][1].timestamp_ns > last.event.timestamp_ns

(***************************************************************************)
(* C15.  Context consumption: after a return interception that passed the  *)
(* process filter the store of its direction holds no pending context      *)
(* under the key of the calling task, whether a context was found or not,  *)
(* whether the return value was negative or not, and whether the record    *)
(* was queued or lost.                                                     *)
(***************************************************************************)
C15_ContextConsumed ==
    (RetStep /\ last.passed) =>
        /\ PendingAt(StoreOf(last.dir), KeyOfTask(last.task)) = NULL
        /\ KeyOfTask(last.task) \notin DOMAIN StoreOf(last.dir)

C15_Witness ==
    /\ RetStep /\ last.passed /\ last.found
    /\ ReturnedNegative(last.reg) /\ last.nemit = 0
    /\ PendingAt(StoreOf(last.dir), KeyOfTask(last.task)) = NULL

\* step i is the lookup of a return handler that found a pending context
IsTake(i) == log[i].last.op = "lookup" /\ log[i].last.found
\* no pending context is found by two return interceptions, and a return
\* interception calls bpf_perf_event_output at most once
TakenOnce ==
    /\ \A i, j \in Steps :
           (i < j /\ IsTake(i) /\ IsTake(j))
               => log[i].last.ctx.call # log[j].last.ctx.call
    /\ \A i \in Steps : log[i].last.nemit <= 1

(***************************************************************************)
(* C16.  take(key) is atomic with respect to the other handlers: with the  *)
(* lookup and the delete of a return handler as two steps and handlers of  *)
(* other tasks running between them, a pending context is found by at most *)
(* one return interception and gives at most one record, and the delete    *)
(* removes the context the lookup found and no other: none that another    *)
(* task stored, none stored after the lookup.                              *)
(***************************************************************************)
C16_TakeIsAtomic ==
    [][ /\ TakenOnce'
        /\ (last'.op = "ret" /\ last'.passed) =>
               LET before == StoreOf(last'.dir)
                   after == StoreOfNext(last'.dir)
               IN  /\ \A k \in DOMAIN after :
                          /\ k \in DOMAIN before
                          /\ after[k] = before[k]
                          /\ after[k] # last'.ctx
                   /\ \A k \in DOMAIN before \ DOMAIN after :
                          /\ before[k] = last'.ctx
                          /\ k = KeyOfTask(last'.task)
                   /\ last'.found
                          => KeyOfTask(last'.task) \in DOMAIN before \ DOMAIN after ]_vars

C16_Witness ==
    /\ Len(log) >= 3
    /\ last.op = "ret" /\ last.passed /\ last.found /\ last.nemit = 1
    /\ log[Len(log) - 1].last.op = "entry"
    /\ log[Len(log) - 1].last.task # last.task
    /\ log[Len(log) - 1].last.dir = last.dir
    /\ log[Len(log) - 2].last.op = "lookup"
    /\ log[Len(log) - 2].last.task = last.task

\* the step of the entry interception of a call
EntryStep(call) ==
    CHOOSE i \in Steps : log[i].last.op = "entry" /\ log[i].last.call = call
\* both transports of ssl can be read
BothResolvable(ssl) == FdResolvable(ssl, kSSLRead) /\ FdResolvable(ssl, kSSLWrite)

(***************************************************************************)
(* C17.  Descriptor resolution by direction: for a connection object whose *)
(* rbio and wbio are readable and hold the descriptors Dr and Dw, the read *)
(* entry interception stores Dr and the write entry interception stores    *)
(* Dw, and the record of a read call carries Dr, that of a write call Dw.  *)
(***************************************************************************)
C17_DescriptorByDirection ==
    /\ (/\ lib = "openssl" /\ last.op = "entry" /\ last.put
        /\ BothResolvable(cur[last.task].ssl))
           => PendingAt(StoreOf(last.dir), KeyOfTask(last.task)).fd
                  = (IF last.dir = kSSLRead
                     THEN bio_num[SslObject(cur[last.task].ssl).rbio]
                     ELSE bio_num[SslObject(cur[last.task].ssl).wbio])
    /\ (/\ lib = "openssl" /\ RetStep /\ last.of.probed /\ last.nemit = 1
        /\ BothResolvable(last.of.ssl))
           => LET nums == log[EntryStep(last.call)].bio_num
              IN  /\ last.event.type = last.dir
                  /\ last.event.fd
                         = (IF last.dir = kSSLRead
                            THEN nums[SslObject(last.of.ssl).rbio]
                            ELSE nums[SslObject(last.of.ssl).wbio])

\* a write call and then a read call on one connection object whose
\* transports hold different descriptors
C17_Witness ==
    /\ lib = "openssl" /\ RetStep /\ last.of.stored /\ last.nemit = 1
    /\ last.dir = kSSLRead /\ BothResolvable(last.of.ssl)
    /\ \E i \in Steps :
           /\ log[i].last.op = "ret" /\ log[i].last.dir = kSSLWrite
           /\ log[i].last.of.stored /\ log[i].last.nemit = 1
           /\ log[i].last.of.ssl = last.of.ssl
           /\ log[i].last.event.fd # last.event.fd
           /\ log[i].last.event.fd = bio_num[SslObject(last.of.ssl).wbio]
    /\ last.event.fd = bio_num[SslObject(last.of.ssl).rbio]

(***************************************************************************)
(* C18.  The descriptor of an OpenSSL record is the one resolved at the    *)
(* entry interception of the call and kept in the pending context: the     *)
(* descriptor the transport held at entry, whatever it holds at return.    *)
(* It is stated of the calls whose entry was intercepted.                  *)
(***************************************************************************)
C18_DescriptorOfEntryTime ==
    (lib = "openssl" /\ RetStep /\ last.of.probed /\ last.nemit = 1)
        => /\ last.ctx.call = last.call
           /\ last.event.fd = last.ctx.fd
           /\ last.event.fd
                  = FdOf(log[EntryStep(last.call)].bio_num, last.of.ssl, last.dir)

C18_Witness ==
    /\ lib = "openssl" /\ RetStep /\ last.of.stored /\ last.nemit = 1
    /\ last.dir = kSSLWrite
    /\ FdResolvable(last.of.ssl, last.dir)
    /\ FdOf(bio_num, last.of.ssl, last.dir) # last.event.fd
    /\ last.event.fd
           = FdOf(log[EntryStep(last.call)].bio_num, last.of.ssl, last.dir)

(***************************************************************************)
(* C19.  The two stores are independent: a read entry or return            *)
(* interception leaves the write store as it was and a write entry or      *)
(* return interception leaves the read store as it was; the context a      *)
(* return interception finds was stored by an entry interception of its    *)
(* own direction, and the type of the record is that direction.            *)
(***************************************************************************)
C19_StoresIndependent ==
    [][ /\ (last'.op \in { "entry", "ret" } /\ last'.dir = kSSLRead)
               => active_ssl_write_args_map' = active_ssl_write_args_map
        /\ (last'.op \in { "entry", "ret" } /\ last'.dir = kSSLWrite)
               => active_ssl_read_args_map' = active_ssl_read_args_map
        /\ (last'.op = "ret" /\ last'.found)
               => /\ PendingAt(StoreOf(last'.dir), KeyOfTask(last'.task))
                         = last'.ctx
                  /\ \E i \in Steps :
                         /\ log[i].last.op = "entry" /\ log[i].last.put
                         /\ log[i].last.call = last'.ctx.call
                         /\ log[i].last.dir = last'.dir
                  /\ last'.nemit = 1 => last'.event.type = last'.dir ]_vars

C19_Witness ==
    /\ RetStep /\ last.dir = kSSLRead /\ last.found /\ last.nemit = 1
    /\ last.event.type = kSSLRead
    /\ PendingAt(active_ssl_write_args_map, KeyOfTask(last.task)) # NULL
    /\ PendingAt(active_ssl_write_args_map, KeyOfTask(last.task)).call
           < last.ctx.call

\* the record is the one a return interception by task t of direction dir
\* makes from the context ctx and the return register reg at time ts
RecordOf(event, t, dir, ctx, reg, ts) ==
    /\ event.type = dir
    /\ event.pid = t[1]
    /\ event.tid = t[2]
    /\ event.timestamp_ns = ts
    /\ event.comm = CurrentComm(t)
    /\ lib = "openssl" => event.fd = ctx.fd
    /\ event.data_len = Min(ReturnedCount(reg), MAX_DATA_SIZE_OPENSSL)
    /\ Payload(event) = BytesAt(ctx.buf, event.data_len)

(***************************************************************************)
(* C20.  Scratch slot integrity: the record slot of a cpu is used again by *)
(* every call that returns on that cpu, and every emitted record has its   *)
(* type, pid, tid, descriptor, data_len and first data_len payload bytes   *)
(* from the one return interception that emitted it; a record in a ring    *)
(* stays as it was emitted when the slot is used again.                    *)
(***************************************************************************)
C20_ScratchSlotIntegrity ==
    /\ (RetStep /\ last.nemit = 1) =>
           /\ RecordOf(last.event, last.task, last.dir, last.ctx, last.reg, now)
           /\ data_buffer_heap[last.cpu] = last.event
    /\ \A c \in CPUs : \A n \in 1 .. Len(tls_events[c]) :
           \E k \in Steps :
               /\ log[k].last.op = "ret" /\ log[k].last.queued
               /\ log[k].last.cpu = c
               /\ log[k].last.event = tls_events[c][n]
               /\ RecordOf(tls_events[c][n], log[k].last.task, log[k].last.dir,
                           log[k].last.ctx, log[k].last.reg, k)

\* the slot held the longer record of a call of another task and of the
\* other direction; its bytes beyond data_len are still in the slot
C20_Witness ==
    /\ RetStep /\ last.nemit = 1 /\ last.copy_ok /\ last.event.data_len > 0
    /\ \E k \in Steps :
           /\ log[k].last.op = "ret" /\ log[k].last.nemit = 1
           /\ log[k].last.cpu = last.cpu
           /\ log[k].last.task # last.task
           /\ log[k].last.dir # last.dir
           /\ log[k].last.event.data_len > last.event.data_len
           /\ last.event.data[MAX_DATA_SIZE_OPENSSL]
                  = log[k].last.event.data[MAX_DATA_SIZE_OPENSSL]
           /\ last.event.data[MAX_DATA_SIZE_OPENSSL] # 0
=============================================================================
